---- MODULE Spec2Model ----
(***************************************************************************)
(* Sonic Pixelator: the encode/decode codec of EncoderService              *)
(* (src/services/encoder.service.ts) and the handlers of AppComponent      *)
(* (src/app.component.ts) that run it.  Bytes are naturals 0..255, byte    *)
(* buffers and pixel buffers are sequences (code index k is element k+1),  *)
(* strings are sequences of Unicode code points.                           *)
(***************************************************************************)
EXTENDS Integers, Sequences, FiniteSets, TLC

VARIABLES
    pc,          \* position of the operation in progress; in SpecApp, of each handler call
    app,         \* the signals of AppComponent: isProcessing, mode, the selected files, ...
    file,        \* the File handed to an encoder: [data, type, name]
    payload,     \* the framed buffer createPayload returned
    image,       \* a pixel buffer with its dimensions: [width, height, pixels]
    decoded,     \* what decodeImageToFile returned or threw
    seed,        \* the generator state of getShuffledIndices (`let seed`)
    shuffleLog,  \* every getShuffledIndices call so far: <<totalPixels, reservedPixels, result>>
    args,        \* the arguments of the helper under study
    ret          \* what the helper returned

vars == <<pc, app, file, payload, image, decoded, seed, shuffleLog, args, ret>>

(***************************************************************************)
(* Bounds of the model.                                                    *)
(***************************************************************************)
MaxCount == 5        \* largest totalPixels - reservedPixels of a direct shuffle call
MaxCalls == 3        \* getShuffledIndices calls in one run of SpecShuffle
MaxPayloadBits == 700 \* largest payload, in bits, handed to the planner alone
MaxDim == 11         \* largest cover width and height handed to the planner alone
MaxCoverDim == 8     \* largest cover width and height of an encode
MaxData == 1         \* most bytes of file data
MaxTail == 7         \* most bytes after the magic of a buffer handed to the parser alone
MaxOps == 2          \* generateImage and decodeImage calls in one run of SpecApp

(***************************************************************************)
(* Program constants.                                                      *)
(***************************************************************************)
MAGIC_SNIC == <<83, 78, 73, 67>>
MAGIC_SNIZ == <<83, 78, 73, 90>>
MAGIC_SNIH == <<83, 78, 73, 72>>
RESERVED_HEADER_PIXELS == 32

None == <<>>

Min(a, b) == IF a <= b THEN a ELSE b
Max(a, b) == IF a >= b THEN a ELSE b
CeilDiv(a, b) == (a + b - 1) \div b
Pow2(n) == 2 ^ n

(***************************************************************************)
(* 32-bit arithmetic.  A 32-bit word is <<hi, lo>>, two 16-bit halves: the *)
(* bit operators of the generator (^, |, >>>, Math.imul) work on the low   *)
(* 32 bits of their operands.                                              *)
(***************************************************************************)
\* a ^ b for two 4-bit numbers: XorNibble[a + 1][b + 1]
XorNibble ==
    <<<< 0,  1,  2,  3,  4,  5,  6,  7,  8,  9, 10, 11, 12, 13, 14, 15>>,
      << 1,  0,  3,  2,  5,  4,  7,  6,  9,  8, 11, 10, 13, 12, 15, 14>>,
      << 2,  3,  0,  1,  6,  7,  4,  5, 10, 11,  8,  9, 14, 15, 12, 13>>,
      << 3,  2,  1,  0,  7,  6,  5,  4, 11, 10,  9,  8, 15, 14, 13, 12>>,
      << 4,  5,  6,  7,  0,  1,  2,  3, 12, 13, 14, 15,  8,  9, 10, 11>>,
      << 5,  4,  7,  6,  1,  0,  3,  2, 13, 12, 15, 14,  9,  8, 11, 10>>,
      << 6,  7,  4,  5,  2,  3,  0,  1, 14, 15, 12, 13, 10, 11,  8,  9>>,
      << 7,  6,  5,  4,  3,  2,  1,  0, 15, 14, 13, 12, 11, 10,  9,  8>>,
      << 8,  9, 10, 11, 12, 13, 14, 15,  0,  1,  2,  3,  4,  5,  6,  7>>,
      << 9,  8, 11, 10, 13, 12, 15, 14,  1,  0,  3,  2,  5,  4,  7,  6>>,
      <<10, 11,  8,  9, 14, 15, 12, 13,  2,  3,  0,  1,  6,  7,  4,  5>>,
      <<11, 10,  9,  8, 15, 14, 13, 12,  3,  2,  1,  0,  7,  6,  5,  4>>,
      <<12, 13, 14, 15,  8,  9, 10, 11,  4,  5,  6,  7,  0,  1,  2,  3>>,
      <<13, 12, 15, 14,  9,  8, 11, 10,  5,  4,  7,  6,  1,  0,  3,  2>>,
      <<14, 15, 12, 13, 10, 11,  8,  9,  6,  7,  4,  5,  2,  3,  0,  1>>,
      <<15, 14, 13, 12, 11, 10,  9,  8,  7,  6,  5,  4,  3,  2,  1,  0>>>>

\* a ^ b for two 16-bit numbers, nibble by nibble
Xor16(a, b) ==
    XorNibble[(a % 16) + 1][(b % 16) + 1]
        + 16 * XorNibble[((a \div 16) % 16) + 1][((b \div 16) % 16) + 1]
        + 256 * XorNibble[((a \div 256) % 16) + 1][((b \div 256) % 16) + 1]
        + 4096 * XorNibble[(a \div 4096) + 1][(b \div 4096) + 1]

\* a | b
RECURSIVE BitOr(_, _)
BitOr(a, b) ==
    IF a = 0 THEN b
    ELSE IF b = 0 THEN a
    ELSE Max(a % 2, b % 2) + 2 * BitOr(a \div 2, b \div 2)

Xor32(x, y) == <<Xor16(x[1], y[1]), Xor16(x[2], y[2])>>
Or32(x, y) == <<BitOr(x[1], y[1]), BitOr(x[2], y[2])>>
\* x >>> k, for 0 < k < 16
Shr32(x, k) ==
    <<x[1] \div Pow2(k), (x[2] \div Pow2(k)) + (x[1] % Pow2(k)) * Pow2(16 - k)>>
Add32(x, y) ==
    <<(x[1] + y[1] + ((x[2] + y[2]) \div 65536)) % 65536, (x[2] + y[2]) % 65536>>
\* the low and the high 16 bits of the product of two 16-bit numbers
Mul16Lo(a, b) == (a * (b % 256) + ((a * (b \div 256)) % 256) * 256) % 65536
Mul16Hi(a, b) ==
    ((a * (b % 256) + ((a * (b \div 256)) % 256) * 256) \div 65536)
        + ((a * (b \div 256)) \div 256)
\* Math.imul
Imul(x, y) ==
    <<(Mul16Hi(x[2], y[2]) + Mul16Lo(x[1], y[2]) + Mul16Lo(x[2], y[1])) % 65536,
      Mul16Lo(x[2], y[2])>>

(***************************************************************************)
(* getShuffledIndices: the seeded generator and the Fisher-Yates loop.     *)
(***************************************************************************)
\* let seed = 1337 ^ 0xDEADBEEF: the state every call starts from, whatever
\* state `prev` the generator was left in
InitialSeedStale(prev) == prev
InitialSeed(prev) == Xor32(<<0, 1337>>, <<57005, 48879>>)

\* seed += 0x6D2B79F5
NextSeed(s) == Add32(s, <<27947, 31221>>)

\* the 32-bit word random() divides by 4294967296, from the advanced seed
Mix(s) ==
    LET t1 == Imul(Xor32(s, Shr32(s, 15)), Or32(s, <<0, 1>>))
        t2 == Xor32(t1, Add32(t1, Imul(Xor32(t1, Shr32(t1, 7)), Or32(t1, <<0, 61>>))))
    IN  Xor32(t2, Shr32(t2, 14))

\* Math.floor(random() * (i + 1)), random() = u / 2^32
ScaleIndex(u, i) == (u[1] * (i + 1) + ((u[2] * (i + 1)) \div 65536)) \div 65536

\* const temp = indices[i]; indices[i] = indices[j]; indices[j] = temp
SwapLossy(indices, i, j) == [indices EXCEPT ![j + 1] = indices[i + 1]]
Swap(indices, i, j) ==
    [indices EXCEPT ![i + 1] = indices[j + 1], ![j + 1] = indices[i + 1]]

\* one turn of for (let i = count - 1; i > 0; i--)
ShuffleStep(st, i) ==
    LET s1 == NextSeed(st.seed)
        j  == ScaleIndex(Mix(s1), i)
    IN  [indices |-> Swap(st.indices, i, j), seed |-> s1]

\* the turns i = count - lo, ..., count - hi of the loop, in this order.  The
\* range is halved, and the first half is evaluated (left = left) before the
\* second is entered, so that the evaluation stays shallow.
RECURSIVE ShuffleLoop(_, _, _, _)
ShuffleLoop(st, count, lo, hi) ==
    IF lo > hi THEN st
    ELSE IF lo = hi THEN ShuffleStep(st, count - lo)
    ELSE LET left == ShuffleLoop(st, count, lo, (lo + hi) \div 2)
         IN  IF left = left THEN ShuffleLoop(left, count, ((lo + hi) \div 2) + 1, hi)
             ELSE left

\* a shuffle of all the pixels, the reserved ones among them
ShuffleRunUnreserved(totalPixels, reservedPixels) ==
    ShuffleLoop([indices |-> [i \in 1..totalPixels |-> i - 1], seed |-> InitialSeed(seed)],
                totalPixels, 1, totalPixels - 1)

\* the call, with the generator state it leaves behind; totalPixels >= reservedPixels
ShuffleRun(totalPixels, reservedPixels) ==
    LET count == totalPixels - reservedPixels
    IN  ShuffleLoop([indices |-> [i \in 1..count |-> reservedPixels + (i - 1)],
                     seed |-> InitialSeed(seed)],
                    count, 1, count - 1)

getShuffledIndices(totalPixels, reservedPixels) ==
    ShuffleRun(totalPixels, reservedPixels).indices

(***************************************************************************)
(* SpecShuffle: getShuffledIndices called again and again, by whichever    *)
(* operation runs next.                                                    *)
(***************************************************************************)
ShuffleArgs ==
    {<<r + c, r>> : r \in {0, RESERVED_HEADER_PIXELS}, c \in 1..MaxCount}

InitShuffle ==
    /\ pc = "shuffle"
    /\ file = None /\ payload = None /\ image = None /\ decoded = None
    /\ seed = <<0, 0>>
    /\ shuffleLog = <<>>
    /\ args = None
    /\ ret = None
    /\ app = None

ShuffleCall ==
    /\ pc = "shuffle"
    /\ Len(shuffleLog) < MaxCalls
    /\ \E a \in ShuffleArgs :
          LET run == ShuffleRun(a[1], a[2])
          IN  /\ args' = a
              /\ ret' = run.indices
              /\ seed' = run.seed
              /\ shuffleLog' = Append(shuffleLog, <<a[1], a[2], run.indices>>)
    /\ UNCHANGED <<app, pc, file, payload, image, decoded>>

NextShuffle == ShuffleCall

SpecShuffle == InitShuffle /\ [][NextShuffle]_vars

Range(s) == {s[k] : k \in 1..Len(s)}

\* C3: every sequence getShuffledIndices(N, R) returned has exactly N - R
\* entries and is a permutation of R..N-1: each index of the range occurs
\* in it, so none occurs twice and none lies outside.
ShuffleIsPermutation ==
    \A k \in 1..Len(shuffleLog) :
        LET e == shuffleLog[k]
        IN  /\ Len(e[3]) = e[1] - e[2]
            /\ Range(e[3]) = e[2]..(e[1] - 1)
            \* and at turn i the swap partner lies in 0..i for the least,
            \* the greatest and a middle word of the generator
            /\ \A i \in 1..(e[1] - e[2]) :
                  \A u \in {<<0, 0>>, <<32768, 0>>, <<65535, 65535>>} :
                     ScaleIndex(u, i) \in 0..i

\* a call over the reserved header that moved its indices out of order
ShuffleWitness ==
    \E k \in 1..Len(shuffleLog) :
        LET e == shuffleLog[k]
        IN  /\ e[2] = RESERVED_HEADER_PIXELS
            /\ e[1] - e[2] = MaxCount
            /\ e[3] # [i \in 1..MaxCount |-> e[2] + (i - 1)]

\* C4: two calls with the same (N, R) return the same sequence, whatever
\* calls were made before or between them.
ShuffleDeterministic ==
    \A k, l \in 1..Len(shuffleLog) :
        (shuffleLog[k][1] = shuffleLog[l][1] /\ shuffleLog[k][2] = shuffleLog[l][2])
            => shuffleLog[k][3] = shuffleLog[l][3]

\* the same (N, R) called twice with a call of another size in between
ShuffleRepeatWitness ==
    /\ Len(shuffleLog) >= 3
    /\ shuffleLog[1][1] = shuffleLog[3][1]
    /\ shuffleLog[1][2] = shuffleLog[3][2]
    /\ shuffleLog[2][1] # shuffleLog[1][1]
    /\ shuffleLog[1][1] - shuffleLog[1][2] >= 3

(***************************************************************************)
(* The channel write of hideDataInImage, with applyOPAP.                   *)
(***************************************************************************)
applyOPAPNever(original, modified, bpc) == modified
applyOPAP(original, modified, bpc) ==
    LET delta    == modified - original
        interval == Pow2(bpc)
        limit    == Pow2(bpc - 1)
    IN  IF delta > limit /\ (modified - interval) >= 0 THEN modified - interval
        ELSE IF delta < -limit /\ (modified + interval) <= 255 THEN modified + interval
        ELSE modified

\* (originalVal & ~mask) | bitsToEmbed, mask = (1 << finalBPC) - 1, then
\* applyOPAP when finalBPC < 8: the value stored in the channel
EmbedChannel(originalVal, bitsToEmbed, finalBPC) ==
    LET modifiedVal == (originalVal - (originalVal % Pow2(finalBPC))) + bitsToEmbed
    IN  IF finalBPC < 8 THEN applyOPAP(originalVal, modifiedVal, finalBPC)
        ELSE modifiedVal

(***************************************************************************)
(* SpecOPAP: one channel write, for every channel value, density and bits. *)
(***************************************************************************)
InitOPAP ==
    /\ pc = "opap"
    /\ file = None /\ payload = None /\ image = None /\ decoded = None
    /\ seed = <<0, 0>>
    /\ shuffleLog = <<>>
    /\ \E o \in 0..255, b \in 1..7 :
          \E e \in 0..(Pow2(b) - 1) :
             args = [original |-> o, bitsToEmbed |-> e, bpc |-> b]
    /\ ret = None
    /\ app = None

WriteChannel ==
    /\ pc = "opap"
    /\ ret' = EmbedChannel(args.original, args.bitsToEmbed, args.bpc)
    /\ pc' = "opapDone"
    /\ UNCHANGED <<app, file, payload, image, decoded, seed, shuffleLog, args>>

NextOPAP == WriteChannel

SpecOPAP == InitOPAP /\ [][NextOPAP]_vars

Abs(x) == IF x < 0 THEN -x ELSE x

\* C5: the value written to a channel is a byte, carries the embedded bits
\* in its low BPC bits, is one of modified, modified - 2^BPC, modified + 2^BPC,
\* and no byte with those low bits is strictly nearer to the original value.
OPAPNearest ==
    pc = "opapDone" =>
        LET interval == Pow2(args.bpc)
            modified == (args.original - (args.original % interval)) + args.bitsToEmbed
        IN  /\ ret \in 0..255
            /\ ret % interval = args.bitsToEmbed
            /\ ret \in {modified, modified - interval, modified + interval}
            /\ \A v \in 0..255 :
                  v % interval = args.bitsToEmbed
                      => Abs(ret - args.original) <= Abs(v - args.original)

\* a write where plain substitution was not the nearest value and OPAP moved it
OPAPWitness ==
    /\ pc = "opapDone"
    /\ ret # (args.original - (args.original % Pow2(args.bpc))) + args.bitsToEmbed
    /\ args.bpc = 7

(***************************************************************************)
(* The capacity planner of hideDataInImage (lines 64-94).                  *)
(***************************************************************************)
\* the least n with n * n * b >= a * d, counting up from n
RECURSIVE CeilRootFrom(_, _, _, _)
CeilRootFrom(n, a, d, b) ==
    IF n * n * b >= a * d THEN n ELSE CeilRootFrom(n + 1, a, d, b)

\* Math.ceil(a * Math.sqrt(d / (a * b))): the least n with n >= sqrt(a * d / b).
\* Where that root is a whole number the rounding of the division, of the
\* square root and of the product may leave the product just above it, and
\* Math.ceil then returns the next integer.
ScaledCeil(a, d, b) ==
    LET n == CeilRootFrom(a, a, d, b)
    IN  IF n * n * b = a * d THEN {n, n + 1} ELSE {n}

minRequiredBPC(totalPayloadBits, width, height) ==
    CeilDiv(totalPayloadBits, ((width * height) - RESERVED_HEADER_PIXELS) * 3)

\* Condition A
NeedsUpscaleNever(totalPayloadBits, width, height, targetBPC) == FALSE
NeedsUpscale(totalPayloadBits, width, height, targetBPC) ==
    minRequiredBPC(totalPayloadBits, width, height) > targetBPC

\* Condition B: utilization > 0.5 && scale === 1.0
NeedsHeadroom(totalPayloadBits, width, height, targetBPC) ==
    /\ 2 * totalPayloadBits
          > ((width * height) - RESERVED_HEADER_PIXELS) * 3 * targetBPC
    /\ ~NeedsUpscale(totalPayloadBits, width, height, targetBPC)

\* the (newWidth, newHeight) the planner may choose
PlanSizes(totalPayloadBits, width, height, targetBPC) ==
    IF NeedsUpscale(totalPayloadBits, width, height, targetBPC)
    THEN LET desiredChannels == CeilDiv(totalPayloadBits, targetBPC)
             desiredPixels   == CeilDiv(desiredChannels, 3) + RESERVED_HEADER_PIXELS
         IN  {[newWidth |-> w, newHeight |-> h, scaled |-> "fit"] :
                  w \in ScaledCeil(width, desiredPixels, height),
                  h \in ScaledCeil(height, desiredPixels, width)}
    ELSE IF NeedsHeadroom(totalPayloadBits, width, height, targetBPC)
    THEN {[newWidth |-> CeilDiv(width * 5, 4), newHeight |-> CeilDiv(height * 5, 4),
           scaled |-> "headroom"]}
    ELSE {[newWidth |-> width, newHeight |-> height, scaled |-> "none"]}

(***************************************************************************)
(* SpecPlan: the planner for every payload size, cover size and density.   *)
(***************************************************************************)
InitPlan ==
    /\ pc = "plan"
    /\ file = None /\ payload = None /\ image = None /\ decoded = None
    /\ seed = <<0, 0>>
    /\ shuffleLog = <<>>
    /\ \E t \in 1..MaxPayloadBits, w \in 8..MaxDim, h \in 8..MaxDim, b \in 1..7 :
          args = [totalPayloadBits |-> t, width |-> w, height |-> h, targetBPC |-> b]
    /\ ret = None
    /\ app = None

Plan ==
    /\ pc = "plan"
    /\ \E p \in PlanSizes(args.totalPayloadBits, args.width, args.height, args.targetBPC) :
          ret' = p
    /\ pc' = "planDone"
    /\ UNCHANGED <<app, file, payload, image, decoded, seed, shuffleLog, args>>

NextPlan == Plan

SpecPlan == InitPlan /\ [][NextPlan]_vars

\* C6: at the planned size the payload fits at the requested density:
\* ceil(T / ((newW * newH - 32) * 3)) <= targetBPC.
PlanFits ==
    pc = "planDone" =>
        minRequiredBPC(args.totalPayloadBits, ret.newWidth, ret.newHeight)
            <= args.targetBPC

\* a payload that did not fit the cover at the requested density and was
\* planned onto a larger image
PlanWitness ==
    /\ pc = "planDone"
    /\ minRequiredBPC(args.totalPayloadBits, args.width, args.height) > args.targetBPC
    /\ ret.scaled = "fit"
    /\ ret.newWidth > args.width

(***************************************************************************)
(* TextEncoder.encode and TextDecoder.decode (UTF-8).                      *)
(***************************************************************************)
\* the UTF-8 bytes of one code point; a lone surrogate is encoded as U+FFFD
EncodeCodePoint(cp) ==
    IF cp < 128 THEN <<cp>>
    ELSE IF cp < 2048 THEN <<192 + (cp \div 64), 128 + (cp % 64)>>
    ELSE IF cp >= 55296 /\ cp <= 57343 THEN <<239, 191, 189>>
    ELSE IF cp < 65536
    THEN <<224 + (cp \div 4096), 128 + ((cp \div 64) % 64), 128 + (cp % 64)>>
    ELSE <<240 + (cp \div 262144), 128 + ((cp \div 4096) % 64),
           128 + ((cp \div 64) % 64), 128 + (cp % 64)>>

RECURSIVE TextEncode(_)
TextEncode(str) ==
    IF str = <<>> THEN <<>> ELSE EncodeCodePoint(Head(str)) \o TextEncode(Tail(str))

\* the UTF-8 decoder: `needed` continuation bytes are still expected, `seen`
\* of them were read into cp, and the next one must lie in lower..upper.  An
\* ill-formed sequence decodes to U+FFFD and the offending byte is read again.
RECURSIVE Utf8Decode(_, _, _, _, _, _, _)
Utf8Decode(bytes, cp, seen, needed, lower, upper, out) ==
    IF bytes = <<>>
    THEN IF needed # 0 THEN Append(out, 65533) ELSE out
    ELSE LET b == Head(bytes)
             rest == Tail(bytes)
         IN  IF needed = 0
             THEN IF b <= 127 THEN Utf8Decode(rest, 0, 0, 0, 128, 191, Append(out, b))
                  ELSE IF b >= 194 /\ b <= 223
                  THEN Utf8Decode(rest, b % 32, 0, 1, 128, 191, out)
                  ELSE IF b >= 224 /\ b <= 239
                  THEN Utf8Decode(rest, b % 16, 0, 2,
                                  IF b = 224 THEN 160 ELSE 128,
                                  IF b = 237 THEN 159 ELSE 191, out)
                  ELSE IF b >= 240 /\ b <= 244
                  THEN Utf8Decode(rest, b % 8, 0, 3,
                                  IF b = 240 THEN 144 ELSE 128,
                                  IF b = 244 THEN 143 ELSE 191, out)
                  ELSE Utf8Decode(rest, 0, 0, 0, 128, 191, Append(out, 65533))
             ELSE IF b < lower \/ b > upper
             THEN Utf8Decode(bytes, 0, 0, 0, 128, 191, Append(out, 65533))
             ELSE IF seen + 1 = needed
             THEN Utf8Decode(rest, 0, 0, 0, 128, 191, Append(out, cp * 64 + (b % 64)))
             ELSE Utf8Decode(rest, cp * 64 + (b % 64), seen + 1, needed, 128, 191, out)

\* new TextDecoder().decode(bytes): ignoreBOM is false, so a leading U+FEFF
\* (the byte order mark) is dropped from the decoded string
TextDecode(bytes) ==
    LET str == Utf8Decode(bytes, 0, 0, 0, 128, 191, <<>>)
    IN  IF str # <<>> /\ Head(str) = 65279 THEN Tail(str) ELSE str

(***************************************************************************)
(* createPayload and parsePayload.                                         *)
(***************************************************************************)
\* buffer.slice(from, to), code indices
Slice(buffer, from, to) ==
    LET t == Min(to, Len(buffer))
    IN  IF from >= t THEN <<>> ELSE SubSeq(buffer, from + 1, t)

\* sizeView.setUint32(0, n, true): the four bytes of n, least significant first
Uint32LE(n) ==
    <<n % 256, (n \div 256) % 256, (n \div 65536) % 256, (n \div 16777216) % 256>>

\* getUint32(0, true) of four bytes, as a 32-bit word <<hi, lo>>
getUint32(b) == <<b[4] * 256 + b[3], b[2] * 256 + b[1]>>

\* whether the 32-bit word w exceeds the number n
WordExceeds(w, n) ==
    \/ w[1] > n \div 65536
    \/ w[1] = n \div 65536 /\ w[2] > n % 65536

\* Math.min(ptr + dataSize, length), dataSize a 32-bit word
SliceEnd(ptr, dataSize, length) ==
    IF dataSize[1] > length \div 65536 THEN length
    ELSE Min(ptr + dataSize[1] * 65536 + dataSize[2], length)

createPayload(f) ==
    LET mimeBytes == TextEncode(f.type)
        nameBytes == TextEncode(f.name)
    IN  MAGIC_SNIC \o Uint32LE(Len(f.data))
            \o <<Len(mimeBytes) % 256>> \o mimeBytes
            \o <<Len(nameBytes) % 256>> \o nameBytes
            \o f.data

Thrown(kind) == [kind |-> kind]
Decoded(data, mimeType, fileName) ==
    [kind |-> "ok", data |-> data, fileType |-> mimeType, fileName |-> fileName]

\* decompressData: what the gzip stream may make of the bytes; inflation is
\* the platform's, and its result here is either a failure or some bytes
Inflations == {Thrown("DecompressionFailed"), [kind |-> "ok", data |-> <<>>],
               [kind |-> "ok", data |-> <<7>>]}

\* magicCheck[i] !== MAGIC[i] for no i < 4; a missing byte is undefined
HasMagic(buffer, magic) ==
    \A i \in 1..4 : i <= Len(buffer) /\ buffer[i] = magic[i]

\* the four Header Read Error checks, ptr + n > buffer.length
PastEnd(ptr, n, length) == ptr + n > length

\* the bytes after the name: buffer.slice(ptr, Math.min(ptr + dataSize, buffer.length))
DataSliceAll(buffer, ptr, dataSize) == Slice(buffer, ptr, Len(buffer))
DataSlice(buffer, ptr, dataSize) ==
    Slice(buffer, ptr, SliceEnd(ptr, dataSize, Len(buffer)))

\* parsePayload up to its one await: the result, or (kind "inflate") the
\* fields read with decompressData still to answer
parsePayload(buffer) ==
    LET isSnic == HasMagic(buffer, MAGIC_SNIC)
        isSniz == HasMagic(buffer, MAGIC_SNIZ)
        length == Len(buffer)
    IN  IF ~isSnic /\ ~isSniz THEN Thrown("UnrecognizedPayloadMagic")
        \* getUint32 on a DataView of fewer than four bytes
        ELSE IF Len(Slice(buffer, 4, 8)) < 4 THEN Thrown("RangeError")
        ELSE IF PastEnd(8, 1, length) THEN Thrown("TruncatedHeader")
        ELSE
        LET dataSize == getUint32(Slice(buffer, 4, 8))
            mimeLen  == buffer[8 + 1]
            ptr1     == 9
        IN  IF PastEnd(ptr1, mimeLen, length) THEN Thrown("TruncatedHeader")
            ELSE
            LET mimeType == TextDecode(Slice(buffer, ptr1, ptr1 + mimeLen))
                ptr2     == ptr1 + mimeLen
            IN  IF PastEnd(ptr2, 1, length) THEN Thrown("TruncatedHeader")
                ELSE
                LET nameLen == buffer[ptr2 + 1]
                    ptr3    == ptr2 + 1
                IN  IF PastEnd(ptr3, nameLen, length) THEN Thrown("TruncatedHeader")
                    ELSE
                    LET fileName == TextDecode(Slice(buffer, ptr3, ptr3 + nameLen))
                        ptr4     == ptr3 + nameLen
                        fileData == DataSlice(buffer, ptr4, dataSize)
                    IN  IF isSniz
                        THEN [kind |-> "inflate", data |-> fileData,
                              fileType |-> mimeType, fileName |-> fileName]
                        ELSE Decoded(fileData, mimeType, fileName)

\* fileData = await this.decompressData(fileData), and the return
Inflate(parsed, inflated) ==
    IF parsed.kind # "inflate" THEN parsed
    ELSE IF inflated.kind = "ok"
    THEN Decoded(inflated.data, parsed.fileType, parsed.fileName)
    ELSE inflated

(***************************************************************************)
(* SpecParse: parsePayload on every short buffer.                          *)
(***************************************************************************)
RECURSIVE SeqsUpTo(_, _)
SeqsUpTo(S, n) ==
    IF n = 0 THEN {<<>>}
    ELSE LET shorter == SeqsUpTo(S, n - 1)
         IN  shorter \cup {Append(s, x) : s \in {t \in shorter : Len(t) = n - 1}, x \in S}

ParseBytes == {0, 1, 2, 200}
ParsePrefixes == {MAGIC_SNIC, MAGIC_SNIZ, MAGIC_SNIH, <<83, 78>>}

InitParse ==
    /\ pc = "parse"
    /\ file = None /\ payload = None /\ image = None /\ decoded = None
    /\ seed = <<0, 0>>
    /\ shuffleLog = <<>>
    /\ \E p \in ParsePrefixes, t \in SeqsUpTo(ParseBytes, MaxTail) :
          args = [buffer |-> p \o t]
    /\ ret = None
    /\ app = None

Parse ==
    /\ pc = "parse"
    /\ \E inflated \in Inflations : ret' = Inflate(parsePayload(args.buffer), inflated)
    /\ pc' = "parseDone"
    /\ UNCHANGED <<app, file, payload, image, decoded, seed, shuffleLog, args>>

NextParse == Parse

SpecParse == InitParse /\ [][NextParse]_vars

(***************************************************************************)
(* encodeFileToImage: the noise image of a framed buffer.                  *)
(***************************************************************************)
\* Math.ceil(Math.sqrt(n)): the least w with w * w >= n
RECURSIVE CeilSqrtFrom(_, _)
CeilSqrtFrom(w, n) == IF w * w >= n THEN w ELSE CeilSqrtFrom(w + 1, n)

\* bufferIdx < fullBuffer.length ? fullBuffer[bufferIdx++] : 0
ByteOrPad(fullBuffer, bufferIdx) ==
    IF bufferIdx < Len(fullBuffer) THEN fullBuffer[bufferIdx + 1] ELSE 0

encodeFileToImage(fullBuffer) ==
    LET totalPixels == CeilDiv(Len(fullBuffer), 3)
        width  == CeilSqrtFrom(0, totalPixels)
        height == CeilDiv(totalPixels, width)
    IN  [width |-> width, height |-> height,
         pixels |-> [k \in 1..(width * height * 4) |->
                        IF (k - 1) % 4 = 3 THEN 255
                        ELSE ByteOrPad(fullBuffer, ((k - 1) \div 4) * 3 + ((k - 1) % 4))]]

(***************************************************************************)
(* hideDataInImage: alpha, the linear header, the shuffled payload.        *)
(***************************************************************************)
\* the canvas left as drawImage made it
ForceAlphaNever(pixels) == pixels
\* pixels[i] = 255 for i = 3, 7, 11, ...
ForceAlpha(pixels) ==
    [k \in 1..Len(pixels) |-> IF (k - 1) % 4 = 3 THEN 255 ELSE pixels[k]]

\* (v >> b) & 1, for 0 <= v < 2^31
Bit(v, b) == IF b >= 31 THEN 0 ELSE (v \div Pow2(b)) % 2

\* headerBits: MAGIC_SNIH, payload.length (32 bits), finalBPC (8 bits), each
\* least significant bit first
HeaderBits(len, finalBPC) ==
    [i \in 1..72 |->
        IF i <= 32 THEN Bit(MAGIC_SNIH[((i - 1) \div 8) + 1], (i - 1) % 8)
        ELSE IF i <= 64 THEN Bit(len, i - 33)
        ELSE Bit(finalBPC, i - 65)]

\* the byte offset of header bit i (from 0): pixelIdx * 4 + channelIdx
HeaderOffset(i) == (i \div 3) * 4 + (i % 3)

\* pixels[pIdx] = (pixels[pIdx] & ~1) | headerBits[i], pIdx the offset of
\* header bit i: offset k belongs to header bit (k \div 4) * 3 + (k % 4)
WriteHeader(pixels, headerBits) ==
    [k \in 1..Len(pixels) |->
        LET i == ((k - 1) \div 4) * 3 + ((k - 1) % 4)
        IN  IF (k - 1) % 4 < 3 /\ i < Len(headerBits)
            THEN (pixels[k] - (pixels[k] % 2)) + headerBits[i + 1]
            ELSE pixels[k]]

\* the inner loop over b < finalBPC: the next payload bits, while any are left
RECURSIVE TakeBits(_, _, _, _, _, _)
TakeBits(buffer, byteIdx, bitIdx, b, finalBPC, bitsToEmbed) ==
    IF b >= finalBPC \/ byteIdx >= Len(buffer)
    THEN [bitsToEmbed |-> bitsToEmbed, byteIdx |-> byteIdx, bitIdx |-> bitIdx]
    ELSE TakeBits(buffer,
                  IF bitIdx + 1 = 8 THEN byteIdx + 1 ELSE byteIdx,
                  IF bitIdx + 1 = 8 THEN 0 ELSE bitIdx + 1,
                  b + 1, finalBPC,
                  bitsToEmbed + Bit(buffer[byteIdx + 1], bitIdx) * Pow2(b))

\* the turn of a loop that goes on to the last channel of the pixel that
\* took the last payload bit
EmbedStepWholePixel(st, buffer, finalBPC, targetPixelIndex, c) ==
    IF st.byteIdx >= Len(buffer)
          /\ (c = 0 \/ (targetPixelIndex * 4 + c - 1) \notin st.writes)
    THEN st
    ELSE LET pIdx == targetPixelIndex * 4 + c
             t    == TakeBits(buffer, st.byteIdx, st.bitIdx, 0, finalBPC, 0)
         IN  [pixels |-> [st.pixels EXCEPT
                             ![pIdx + 1] = EmbedChannel(st.pixels[pIdx + 1],
                                                        t.bitsToEmbed, finalBPC)],
              writes |-> st.writes \cup {pIdx},
              byteIdx |-> t.byteIdx, bitIdx |-> t.bitIdx]

\* one turn of the loop over the channels c < 3 of pixel targetPixelIndex,
\* st the pixels, the offsets written and the payload cursor; the loop
\* breaks once the payload is consumed
EmbedStep(st, buffer, finalBPC, targetPixelIndex, c) ==
    IF st.byteIdx >= Len(buffer) THEN st
    ELSE LET pIdx == targetPixelIndex * 4 + c
             t    == TakeBits(buffer, st.byteIdx, st.bitIdx, 0, finalBPC, 0)
         IN  [pixels |-> [st.pixels EXCEPT
                             ![pIdx + 1] = EmbedChannel(st.pixels[pIdx + 1],
                                                        t.bitsToEmbed, finalBPC)],
              writes |-> st.writes \cup {pIdx},
              byteIdx |-> t.byteIdx, bitIdx |-> t.bitIdx]

\* the channels n = lo..hi of the pixels in shuffled order, channel n % 3 of
\* pixel shuffledIndices[n \div 3], the range halved as in ShuffleLoop
RECURSIVE EmbedTurns(_, _, _, _, _, _)
EmbedTurns(st, buffer, shuffledIndices, finalBPC, lo, hi) ==
    IF lo > hi THEN st
    ELSE IF lo = hi
    THEN EmbedStep(st, buffer, finalBPC, shuffledIndices[(lo \div 3) + 1], lo % 3)
    ELSE LET left == EmbedTurns(st, buffer, shuffledIndices, finalBPC, lo, (lo + hi) \div 2)
         IN  IF left = left
             THEN EmbedTurns(left, buffer, shuffledIndices, finalBPC,
                             ((lo + hi) \div 2) + 1, hi)
             ELSE left

\* while (payloadByteIdx < payload.length), one shuffled pixel a turn, until
\* shuffledIndices is exhausted
EmbedLoop(st, buffer, shuffledIndices, finalBPC) ==
    EmbedTurns(st, buffer, shuffledIndices, finalBPC, 0, 3 * Len(shuffledIndices) - 1)

\* lines 123-200 on the canvas pixels drawImage left, with the shuffle of
\* the whole image
hideDataInImage(buffer, canvas, shuffledIndices, finalBPC) ==
    LET headerBits == HeaderBits(Len(buffer), finalBPC)
        withHeader == WriteHeader(ForceAlpha(canvas), headerBits)
        done == EmbedLoop([pixels |-> withHeader, writes |-> {}, byteIdx |-> 0, bitIdx |-> 0],
                          buffer, shuffledIndices, finalBPC)
    IN  [pixels |-> done.pixels,
         headerWrites |-> {HeaderOffset(i) : i \in 0..(Len(headerBits) - 1)},
         payloadWrites |-> done.writes]

(***************************************************************************)
(* decodeImageToFile: detection, the two decoders.                         *)
(***************************************************************************)
\* pixels[idx] where a missing element (undefined) is read as 0
PixelAt(pixels, idx) == IF idx < Len(pixels) THEN pixels[idx + 1] ELSE 0

\* a probe of the first byte alone
IsStandardFirstByte(pixels) == PixelAt(pixels, 0) = MAGIC_SNIC[1]
\* rawCheck against SNIC and SNIZ
IsStandard(pixels) ==
    LET rawCheck == <<PixelAt(pixels, 0), PixelAt(pixels, 1),
                      PixelAt(pixels, 2), PixelAt(pixels, 4)>>
    IN  rawCheck = MAGIC_SNIC \/ rawCheck = MAGIC_SNIZ

\* readByte: eight bits from the least significant bits of the channels,
\* from header bit k on
ReadLinearByte(pixels, k) ==
    LET bitAt(b) == PixelAt(pixels, HeaderOffset(k + b)) % 2
    IN  bitAt(0) + 2 * bitAt(1) + 4 * bitAt(2) + 8 * bitAt(3) + 16 * bitAt(4)
            + 32 * bitAt(5) + 64 * bitAt(6) + 128 * bitAt(7)

\* stegoMagicBuffer against SNIH
IsStegoLoose(pixels) == \A i \in 0..2 : ReadLinearByte(pixels, 8 * i) = MAGIC_SNIH[i + 1]
IsStego(pixels) == \A i \in 0..3 : ReadLinearByte(pixels, 8 * i) = MAGIC_SNIH[i + 1]

decodeStandardImage(pixels, width, height) ==
    [k \in 1..(width * height * 3) |-> pixels[((k - 1) \div 3) * 4 + ((k - 1) % 3) + 1]]

\* the header checks of decodeStegoImage (lines 477-478)
HeaderRejected(payloadLen, bpc, width, height) ==
    \/ bpc < 1
    \/ bpc > 8
    \/ WordExceeds(payloadLen, width * height * 3 * bpc)

\* one turn of the loop over the bits b < bpc of channel c of pixel
\* targetPixelIndex, st the payload read so far and its cursor; the loops
\* break once payloadLen bytes are read
ExtractStep(st, pixels, bpc, targetPixelIndex, c, b) ==
    IF st.byteIdx >= Len(st.payload) THEN st
    ELSE LET pIdx == targetPixelIndex * 4 + c
             bits == pixels[pIdx + 1] % Pow2(bpc)
             byte == st.currentByte + Bit(bits, b) * Pow2(st.bitIdx)
         IN  IF st.bitIdx + 1 = 8
             THEN [payload |-> [st.payload EXCEPT ![st.byteIdx + 1] = byte],
                   byteIdx |-> st.byteIdx + 1, bitIdx |-> 0, currentByte |-> 0]
             ELSE [st EXCEPT !.bitIdx = st.bitIdx + 1, !.currentByte = byte]

\* the bits n = lo..hi of the channels in shuffled order, bit n % bpc of
\* channel (n \div bpc) % 3 of pixel shuffledIndices[n \div (3 * bpc)], the
\* range halved as in ShuffleLoop
RECURSIVE ExtractTurns(_, _, _, _, _, _)
ExtractTurns(st, pixels, shuffledIndices, bpc, lo, hi) ==
    IF lo > hi THEN st
    ELSE IF lo = hi
    THEN ExtractStep(st, pixels, bpc, shuffledIndices[(lo \div (3 * bpc)) + 1],
                     (lo \div bpc) % 3, lo % bpc)
    ELSE LET left == ExtractTurns(st, pixels, shuffledIndices, bpc, lo, (lo + hi) \div 2)
         IN  IF left = left
             THEN ExtractTurns(left, pixels, shuffledIndices, bpc, ((lo + hi) \div 2) + 1, hi)
             ELSE left

\* while (payloadByteIdx < payloadLen), one shuffled pixel a turn, until
\* shuffledIndices is exhausted
ExtractLoop(st, pixels, shuffledIndices, bpc) ==
    ExtractTurns(st, pixels, shuffledIndices, bpc, 0, 3 * bpc * Len(shuffledIndices) - 1).payload

\* what a decode returns: the outcome, the helpers it ran, and the shuffle
\* it asked for (None when it asked for none)
Ran(outcome, calls, shuffle) == [outcome |-> outcome, calls |-> calls, shuffle |-> shuffle]

\* decodeStegoImage, reading on from header bit 32 (pixel 10, channel 2)
decodeStegoImage(pixels, width, height) ==
    LET payloadLen == getUint32(<<ReadLinearByte(pixels, 32), ReadLinearByte(pixels, 40),
                                  ReadLinearByte(pixels, 48), ReadLinearByte(pixels, 56)>>)
        bpc == ReadLinearByte(pixels, 64)
    IN  IF HeaderRejected(payloadLen, bpc, width, height)
        THEN Ran(Thrown("InvalidStegoHeader"), <<"decodeStegoImage">>, None)
        \* new Uint32Array(count) with count < 0
        ELSE IF width * height < RESERVED_HEADER_PIXELS
        THEN Ran(Thrown("RangeError"), <<"decodeStegoImage", "getShuffledIndices">>, None)
        ELSE
        LET run == ShuffleRun(width * height, RESERVED_HEADER_PIXELS)
            len == payloadLen[1] * 65536 + payloadLen[2]
            buffer == ExtractLoop([payload |-> [k \in 1..len |-> 0], byteIdx |-> 0,
                                   bitIdx |-> 0, currentByte |-> 0],
                                  pixels, run.indices, bpc)
        IN  Ran(parsePayload(buffer),
                <<"decodeStegoImage", "getShuffledIndices", "parsePayload">>,
                [totalPixels |-> width * height, indices |-> run.indices, seed |-> run.seed])

decodeImageToFile(img) ==
    IF IsStandard(img.pixels)
    THEN Ran(parsePayload(decodeStandardImage(img.pixels, img.width, img.height)),
             <<"decodeStandardImage", "parsePayload">>, None)
    ELSE IF IsStego(img.pixels)
    THEN decodeStegoImage(img.pixels, img.width, img.height)
    ELSE Ran(Thrown("UnrecognizedFormat"), <<>>, None)

(***************************************************************************)
(* Spec: a file is framed, encoded into a noise image or hidden in a       *)
(* cover, and the image is decoded again.  The image encoder and decoder   *)
(* between the two are lossless: the decoder reads the pixels written.     *)
(***************************************************************************)
DataBytes == {0, 255}
\* file types: none, "a"
FileTypes == {<<>>, <<97>>}
\* file names: none, "a", "\u00E9a" (a two-byte character), "\uFEFFa" (a
\* leading U+FEFF)
FileNames == {<<>>, <<97>>, <<233, 97>>, <<65279, 97>>}

Files ==
    {[data |-> d, type |-> t, name |-> n] :
        d \in SeqsUpTo(DataBytes, MaxData), t \in FileTypes, n \in FileNames}

\* what drawImage may leave on a canvas of n pixels: the cover, resampled.
\* "probe" starts with the bytes of SNIC where the noise probe reads them.
CoverKinds == {"black", "white", "probe"}
Canvas(kind, n) ==
    [k \in 1..(4 * n) |->
        CASE kind = "black" -> 0
          [] kind = "white" -> 255
          [] OTHER -> IF k <= 5 THEN <<83, 78, 73, 200, 67>>[k]
                      ELSE ((k - 1) * 37 + 11) % 256]

Init ==
    /\ pc = "start"
    /\ file \in Files
    /\ payload = None /\ image = None /\ decoded = None
    /\ seed = <<0, 0>>
    /\ shuffleLog = <<>>
    /\ args = None
    /\ ret = None
    /\ app = None

\* const fullBuffer = await this.createPayload(file)
CreatePayload ==
    /\ pc = "start"
    /\ payload' = createPayload(file)
    /\ pc' = "framed"
    /\ UNCHANGED <<app, file, image, decoded, seed, shuffleLog, args, ret>>

\* encodeFileToImage after createPayload
EncodeNoise ==
    /\ pc = "framed"
    /\ image' = encodeFileToImage(payload)
    /\ args' = [mode |-> "noise"]
    /\ pc' = "encoded"
    /\ UNCHANGED <<app, file, payload, decoded, seed, shuffleLog, ret>>

\* hideDataInImage after createPayload, for a cover and a density
HideData ==
    /\ pc = "framed"
    /\ \E w \in 8..MaxCoverDim, h \in 8..MaxCoverDim, targetBPC \in 1..7, kind \in CoverKinds :
          \E size \in PlanSizes(Len(payload) * 8, w, h, targetBPC) :
             \E canvas \in {Canvas(kind, size.newWidth * size.newHeight)},
                run \in {ShuffleRun(size.newWidth * size.newHeight, RESERVED_HEADER_PIXELS)} :
             \E hidden \in {hideDataInImage(payload, canvas, run.indices, targetBPC)} :
             LET total == size.newWidth * size.newHeight
             IN  /\ image' = [width |-> size.newWidth, height |-> size.newHeight,
                              pixels |-> hidden.pixels]
                 /\ args' = [mode |-> "stego", width |-> w, height |-> h,
                             targetBPC |-> targetBPC, canvas |-> canvas,
                             headerWrites |-> hidden.headerWrites,
                             payloadWrites |-> hidden.payloadWrites]
                 /\ seed' = run.seed
                 /\ shuffleLog' = Append(shuffleLog,
                                         <<total, RESERVED_HEADER_PIXELS, run.indices>>)
    /\ pc' = "encoded"
    /\ UNCHANGED <<app, file, payload, decoded, ret>>

\* decodeImageToFile on the pixel buffer in `image`
Decode ==
    /\ pc = "encoded"
    /\ \E r \in {decodeImageToFile(image)} :
           /\ \E inflated \in (IF r.outcome.kind = "inflate" THEN Inflations
                                ELSE {Thrown("DecompressionFailed")}) :
                 decoded' = [outcome |-> Inflate(r.outcome, inflated), calls |-> r.calls]
           /\ seed' = IF r.shuffle = None THEN seed ELSE r.shuffle.seed
           /\ shuffleLog' =
                 IF r.shuffle = None THEN shuffleLog
                 ELSE Append(shuffleLog, <<r.shuffle.totalPixels, RESERVED_HEADER_PIXELS,
                                           r.shuffle.indices>>)
    /\ pc' = "decoded"
    /\ UNCHANGED <<app, file, payload, image, args, ret>>

Next == CreatePayload \/ EncodeNoise \/ HideData \/ Decode

Spec == Init /\ [][Next]_vars

\* C1: decoding the noise image of a file returns the file's data, type
\* and name exactly (no padding byte is returned as data).
NoiseRoundTrip ==
    (pc = "decoded" /\ args.mode = "noise")
        => decoded.outcome = Decoded(file.data, file.type, file.name)

\* C2: decoding the image the stego embedder made of a file, a cover and a
\* density returns the file's data, type and name exactly.
StegoRoundTrip ==
    (pc = "decoded" /\ args.mode = "stego")
        => decoded.outcome = Decoded(file.data, file.type, file.name)

\* the noise round trip of a file named "\uFEFFa" returned the name "a"
NoiseNameLosesBOM ==
    /\ pc = "decoded" /\ args.mode = "noise"
    /\ file.name = <<65279, 97>>
    /\ decoded.outcome = Decoded(file.data, file.type, <<97>>)
\* and so did its stego round trip
StegoNameLosesBOM ==
    /\ pc = "decoded" /\ args.mode = "stego"
    /\ file.name = <<65279, 97>>
    /\ decoded.outcome = Decoded(file.data, file.type, <<97>>)

\* Both round trips hold of every file whose type and name do not start
\* with U+FEFF, the one character TextDecoder drops.
StartsWithBOM(str) == str # <<>> /\ Head(str) = 65279
RoundTripWithoutBOM ==
    (pc = "decoded" /\ ~StartsWithBOM(file.type) /\ ~StartsWithBOM(file.name))
        => decoded.outcome = Decoded(file.data, file.type, file.name)
\* and of the data of every file
RoundTripOfData ==
    pc = "decoded" => (decoded.outcome.kind = "ok" /\ decoded.outcome.data = file.data
                         /\ decoded.outcome.fileType = file.type)

(***************************************************************************)
(* SpecDecode: decodeImageToFile on images that need not come from the     *)
(* encoder: small and large, plain or carrying a magic in the raw probe    *)
(* bytes or a header in the least significant bits of the first pixels.    *)
(***************************************************************************)
GivenSizes == {<<1, 1>>, <<2, 1>>, <<10, 1>>, <<11, 1>>, <<5, 5>>, <<6, 6>>, <<8, 8>>}
GivenRawMagics == {MAGIC_SNIC, MAGIC_SNIZ, MAGIC_SNIH, <<83, 78, 73, 0>>}
GivenLsbMagics == {MAGIC_SNIH, MAGIC_SNIC, <<83, 78, 73, 73>>}
\* declared lengths, little-endian: 0, 1, 12, 13, 24, 25, 192, 193, 1536,
\* 1537, 2^32 - 1
GivenLengths ==
    {<<0, 0, 0, 0>>, <<1, 0, 0, 0>>, <<12, 0, 0, 0>>, <<13, 0, 0, 0>>, <<24, 0, 0, 0>>,
     <<25, 0, 0, 0>>, <<192, 0, 0, 0>>, <<193, 0, 0, 0>>, <<0, 6, 0, 0>>, <<1, 6, 0, 0>>,
     <<255, 255, 255, 255>>}
GivenBPCs == {0, 1, 2, 8, 9, 255}

\* the pixels with the bytes of magic where rawCheck reads them
WithRawMagic(pixels, magic) ==
    [k \in 1..Len(pixels) |->
        IF k \in {1, 2, 3} THEN magic[k] ELSE IF k = 5 THEN magic[4] ELSE pixels[k]]

\* the pixels with the bits of the header bytes in the least significant
\* bits of the channels readByte reads, as far as the image has them
WithLsbHeader(pixels, bytes) ==
    [k \in 1..Len(pixels) |->
        LET pixel == (k - 1) \div 4
            c     == (k - 1) % 4
            bit   == pixel * 3 + c
        IN  IF c < 3 /\ bit < 8 * Len(bytes)
            THEN (pixels[k] - (pixels[k] % 2)) + Bit(bytes[(bit \div 8) + 1], bit % 8)
            ELSE pixels[k]]

GivenImages ==
    LET plain == {[size |-> s, kind |-> k] : s \in GivenSizes, k \in CoverKinds}
        base(p) == ForceAlpha(Canvas(p.kind, p.size[1] * p.size[2]))
        img(p, px, over, magic) ==
            [image |-> [width |-> p.size[1], height |-> p.size[2], pixels |-> px],
             overlay |-> over, magic |-> magic]
    IN  {img(p, base(p), "none", None) : p \in plain}
        \cup {img(p, WithRawMagic(base(p), m), "raw", m) :
                 p \in plain, m \in GivenRawMagics}
        \cup {img(p, WithLsbHeader(base(p), m \o l \o <<b>>), "lsb", m) :
                 p \in plain, m \in GivenLsbMagics, l \in GivenLengths, b \in GivenBPCs}
        \* a stego header with a noise magic put over it, and the other
        \* way round
        \cup {img(p, WithRawMagic(WithLsbHeader(base(p), MAGIC_SNIH \o <<0, 0, 0, 0, 1>>), m),
                   "both", m) : p \in plain, m \in {MAGIC_SNIC, MAGIC_SNIZ}}
        \cup {img(p, WithLsbHeader(WithRawMagic(base(p), m), MAGIC_SNIH \o <<0, 0, 0, 0, 1>>),
                   "both", MAGIC_SNIH) : p \in plain, m \in {MAGIC_SNIC, MAGIC_SNIZ}}

InitDecode ==
    /\ pc = "encoded"
    /\ \E g \in GivenImages :
          /\ image = g.image
          /\ args = [mode |-> "given", overlay |-> g.overlay, magic |-> g.magic]
    /\ file = None /\ payload = None /\ decoded = None
    /\ seed = <<0, 0>>
    /\ shuffleLog = <<>>
    /\ ret = None
    /\ app = None

NextDecode == Decode

SpecDecode == InitDecode /\ [][NextDecode]_vars

\* what the image holds where the probes look, -1 where it has no such byte
ChannelGiven(pixel, c) ==
    IF pixel * 4 + c < Len(image.pixels) THEN image.pixels[pixel * 4 + c + 1] ELSE -1
ProbeBytesGiven ==
    <<ChannelGiven(0, 0), ChannelGiven(0, 1), ChannelGiven(0, 2), ChannelGiven(1, 0)>>
\* bit k of the linear header: the least significant bit of channel k % 3 of
\* pixel k \div 3
LsbGiven(k) ==
    IF ChannelGiven(k \div 3, k % 3) < 0 THEN -1 ELSE ChannelGiven(k \div 3, k % 3) % 2
\* byte n of the linear header
LsbByteGiven(n) ==
    IF \E b \in 0..7 : LsbGiven(8 * n + b) < 0 THEN -1
    ELSE LsbGiven(8 * n) + 2 * LsbGiven(8 * n + 1) + 4 * LsbGiven(8 * n + 2)
           + 8 * LsbGiven(8 * n + 3) + 16 * LsbGiven(8 * n + 4) + 32 * LsbGiven(8 * n + 5)
           + 64 * LsbGiven(8 * n + 6) + 128 * LsbGiven(8 * n + 7)
NoiseMagicGiven == ProbeBytesGiven \in {<<83, 78, 73, 67>>, <<83, 78, 73, 90>>}
StegoMagicGiven ==
    <<LsbByteGiven(0), LsbByteGiven(1), LsbByteGiven(2), LsbByteGiven(3)>> = <<83, 78, 73, 72>>

\* C7: an image whose probe bytes are neither SNIC nor SNIZ and whose first
\* 32 linear least significant bits are not SNIH fails to decode with
\* UnrecognizedFormat, and no decoder, extractor or parser has run.
DetectionExclusive ==
    (pc = "decoded" /\ ~NoiseMagicGiven /\ ~StegoMagicGiven)
        => (decoded.outcome = Thrown("UnrecognizedFormat") /\ decoded.calls = <<>>)

\* an image whose least significant bits spell SNI and then miss the H was
\* turned away, and so was an image of one pixel
DetectionWitness ==
    /\ pc = "decoded"
    /\ ~NoiseMagicGiven /\ ~StegoMagicGiven
    /\ args.mode = "given" /\ args.overlay = "lsb" /\ args.magic = <<83, 78, 73, 73>>
    /\ LsbByteGiven(2) = 73
    /\ decoded.outcome = Thrown("UnrecognizedFormat")

\* the header fields of an image that has all 24 header pixels
HeaderGiven == Len(image.pixels) >= 4 * 24
BPCGiven == LsbByteGiven(8)
\* the declared length is more than n
LengthGivenExceeds(n) ==
    \/ LsbByteGiven(6) > 0 \/ LsbByteGiven(7) > 0
    \/ LsbByteGiven(4) + 256 * LsbByteGiven(5) > n

\* C8: an image with the SNIH magic whose header has a BPC outside 1..8 or
\* declares more bytes than width*height*3*BPC/8 fails to decode with
\* InvalidStegoHeader, before the pixels are shuffled or a payload bit read.
StegoHeaderValidated ==
    (/\ pc = "decoded" /\ StegoMagicGiven /\ ~NoiseMagicGiven /\ HeaderGiven
     /\ \/ BPCGiven < 1 \/ BPCGiven > 8
        \/ LengthGivenExceeds((image.width * image.height * 3 * BPCGiven) \div 8))
        => (decoded.outcome = Thrown("InvalidStegoHeader")
              /\ decoded.calls = <<"decodeStegoImage">>)

\* What the header checks do turn away: a BPC outside 1..8, and a declared
\* length above width*height*3*BPC, the capacity in bits.
StegoHeaderValidatedInBits ==
    (/\ pc = "decoded" /\ StegoMagicGiven /\ ~NoiseMagicGiven /\ HeaderGiven
     /\ \/ BPCGiven < 1 \/ BPCGiven > 8
        \/ LengthGivenExceeds(image.width * image.height * 3 * BPCGiven))
        => (decoded.outcome = Thrown("InvalidStegoHeader")
              /\ decoded.calls = <<"decodeStegoImage">>)
\* an accepted header that declares more bytes than the pixels hold
StegoHeaderOverCapacity ==
    /\ pc = "decoded" /\ StegoMagicGiven /\ ~NoiseMagicGiven /\ HeaderGiven
    /\ BPCGiven = 1
    /\ LengthGivenExceeds((image.width * image.height * 3 * BPCGiven) \div 8)
    /\ "getShuffledIndices" \in Range(decoded.calls)

\* the buffer given to parsePayload, its bytes numbered from 0, -1 past the end
ByteGiven(k) == IF k < Len(args.buffer) THEN args.buffer[k + 1] ELSE -1
MagicGiven == <<ByteGiven(0), ByteGiven(1), ByteGiven(2), ByteGiven(3)>>
\* where the fields of the frame lie: magic 0..3, length 4..7, mimeLen at 8,
\* mime, nameLen, name, data
MimeLenGiven == ByteGiven(8)
NameLenAt == 9 + MimeLenGiven
NameLenGiven == ByteGiven(NameLenAt)
DataAt == NameLenAt + 1 + NameLenGiven
\* the buffer ends before the end of the length, of mimeLen, of the mime, of
\* nameLen or of the name
EndsInHeader ==
    \/ Len(args.buffer) < 8
    \/ Len(args.buffer) < 9
    \/ Len(args.buffer) < 9 + MimeLenGiven
    \/ Len(args.buffer) < NameLenAt + 1
    \/ Len(args.buffer) < DataAt

\* C9: a buffer that starts with SNIC or SNIZ and ends before the end of the
\* length field, the mimeLen byte, the mime, the nameLen byte or the name
\* fails to parse with TruncatedHeader, and with nothing else.
ParseTruncated ==
    (pc = "parseDone" /\ MagicGiven \in {<<83, 78, 73, 67>>, <<83, 78, 73, 90>>}
        /\ EndsInHeader)
        => ret = Thrown("TruncatedHeader")

\* From the mimeLen byte on, it does: a buffer that holds the whole length
\* field and ends before the end of the name fails with TruncatedHeader.
ParseTruncatedAfterLength ==
    (pc = "parseDone" /\ MagicGiven \in {<<83, 78, 73, 67>>, <<83, 78, 73, 90>>}
        /\ Len(args.buffer) >= 8 /\ EndsInHeader)
        => ret = Thrown("TruncatedHeader")
\* a buffer that ends inside the length field fails with the RangeError of
\* DataView.getUint32
ParseTruncatedInLength ==
    /\ pc = "parseDone" /\ MagicGiven = <<83, 78, 73, 67>>
    /\ Len(args.buffer) = 5
    /\ ret = Thrown("RangeError")

\* the bytes of data the frame declares, or those that remain if fewer
DataLenGiven ==
    LET remaining == Len(args.buffer) - DataAt
        low == ByteGiven(4) + 256 * ByteGiven(5)
    IN  IF ByteGiven(6) = 0 /\ ByteGiven(7) = 0 /\ low < remaining THEN low ELSE remaining

\* C10: a buffer with a whole SNIC header parses without error, and its data
\* are the min(declared length, bytes remaining) bytes after the name: fewer
\* than declared if fewer remain, never more than declared.
ParseClampsData ==
    (pc = "parseDone" /\ MagicGiven = <<83, 78, 73, 67>> /\ ~EndsInHeader)
        => /\ ret.kind = "ok"
           /\ ret.data = [k \in 1..DataLenGiven |-> args.buffer[DataAt + k]]

\* a frame that declares two bytes and holds one, which is returned
ParseClampWitness ==
    /\ pc = "parseDone" /\ MagicGiven = <<83, 78, 73, 67>> /\ ~EndsInHeader
    /\ ByteGiven(4) = 2 /\ ByteGiven(5) = 0 /\ ByteGiven(6) = 0 /\ ByteGiven(7) = 0
    /\ Len(args.buffer) - DataAt = 1
    /\ ret = Decoded(<<ByteGiven(DataAt)>>, <<>>, <<>>)

(***************************************************************************)
(* What the embedder writes, and where.                                    *)
(***************************************************************************)
\* the byte offsets of the alpha channel in an image of n bytes
AlphaOffsets(n) == {k \in 0..(n - 1) : k % 4 = 3}

\* C11: in the image the noise encoder or the stego embedder puts out, every
\* alpha byte is 255, and no header write and no payload write of the
\* embedder is to an alpha byte: each is to channel 0, 1 or 2 of a pixel.
AlphaOpaque ==
    (pc \in {"encoded", "decoded"} /\ args.mode \in {"noise", "stego"})
        => /\ \A k \in AlphaOffsets(Len(image.pixels)) : image.pixels[k + 1] = 255
           /\ args.mode = "stego"
                => /\ \A k \in args.headerWrites \cup args.payloadWrites : k % 4 \in {0, 1, 2}
                   /\ Cardinality(args.headerWrites) = 72

\* an embedding into a canvas that was not opaque, with payload written
AlphaWitness ==
    /\ pc = "encoded" /\ args.mode = "stego"
    /\ \E k \in AlphaOffsets(Len(args.canvas)) : args.canvas[k + 1] # 255
    /\ args.payloadWrites # {}
    /\ \A k \in AlphaOffsets(Len(image.pixels)) : image.pixels[k + 1] = 255

\* the header the embedder is to write for the payload and density at hand,
\* as bytes, and bit i of it (from 0, least significant bit of a byte first)
HeaderBytesDue ==
    MAGIC_SNIH \o <<Len(payload) % 256, (Len(payload) \div 256) % 256, 0, 0>>
        \o <<args.targetBPC>>
HeaderBitDue(i) == (HeaderBytesDue[(i \div 8) + 1] \div (2 ^ (i % 8))) % 2
\* the byte at channel c of pixel p, in the image put out and on the canvas
\* the embedder was given
ImageAt(p, c) == image.pixels[4 * p + c + 1]
CanvasAt(p, c) == args.canvas[4 * p + c + 1]

\* C12: of the pixels 0..31 the embedder changes only the least significant
\* bit of R, G, B of pixels 0..23, one header bit each whatever the density;
\* their upper seven bits and R, G, B of pixels 24..31 stay the cover's, no
\* payload write is to a pixel below 32, and the header is intact at the end.
ReservedRegionKept ==
    (pc \in {"encoded", "decoded"} /\ args.mode = "stego")
        => /\ \A p \in 0..23 : \A c \in 0..2 :
                 /\ ImageAt(p, c) \div 2 = CanvasAt(p, c) \div 2
                 /\ ImageAt(p, c) % 2 = HeaderBitDue(3 * p + c)
           /\ \A p \in 24..31 : \A c \in 0..2 : ImageAt(p, c) = CanvasAt(p, c)
           /\ \A p \in 0..31 : ImageAt(p, 3) = 255
           /\ \A k \in args.payloadWrites : k \div 4 >= RESERVED_HEADER_PIXELS
           /\ \A k \in args.headerWrites : k \div 4 < 24

\* an embedding at more than one bit per channel whose header changed a
\* bit of the cover, with payload written after it
ReservedRegionWitness ==
    /\ pc = "encoded" /\ args.mode = "stego"
    /\ args.targetBPC > 1
    /\ args.payloadWrites # {}
    /\ \E p \in 0..23 : \E c \in 0..2 : ImageAt(p, c) # CanvasAt(p, c)
    /\ \A p \in 0..23 : \A c \in 0..2 : ImageAt(p, c) % 2 = HeaderBitDue(3 * p + c)

\* C13: at the planned size the payload takes at most half of the capacity:
\* T <= 0.5 * (newW * newH - 32) * 3 * targetBPC, after the 1.25 scale and
\* after the upscale to fit alike.
PlanKeepsHeadroom ==
    pc = "planDone" =>
        2 * args.totalPayloadBits
            <= (ret.newWidth * ret.newHeight - 32) * 3 * args.targetBPC

\* It does where the planner leaves the cover's size alone.
PlanKeepsHeadroomUnscaled ==
    (pc = "planDone" /\ ret.scaled = "none") =>
        2 * args.totalPayloadBits
            <= (ret.newWidth * ret.newHeight - 32) * 3 * args.targetBPC
\* a plan upscaled to fit that fills more than half of the new capacity
PlanFitFillsImage ==
    /\ pc = "planDone" /\ ret.scaled = "fit"
    /\ args.totalPayloadBits = 112 /\ args.width = 8 /\ args.height = 8 /\ args.targetBPC = 1
    /\ ret.newWidth = 9 /\ ret.newHeight = 9
    /\ 2 * args.totalPayloadBits > (ret.newWidth * ret.newHeight - 32) * 3 * args.targetBPC
\* and a plan scaled by 1.25 that does
PlanHeadroomFallsShort ==
    /\ pc = "planDone" /\ ret.scaled = "headroom"
    /\ 2 * args.totalPayloadBits > (ret.newWidth * ret.newHeight - 32) * 3 * args.targetBPC

\* the permutation the embedder asked for, the channels its payload needs,
\* ceil(T / BPC), and the byte offset of channel n in the order of the
\* permutation (from 0): three channels a pixel
EmbedOrder == shuffleLog[1][3]
ChannelsDue == ((Len(payload) * 8) + args.targetBPC - 1) \div args.targetBPC
OffsetDue(n) == 4 * EmbedOrder[(n \div 3) + 1] + (n % 3)
PixelsDue == (ChannelsDue + 2) \div 3

\* C14: the payload loop stops with the channel that took the last payload
\* bit: it writes the first ceil(T / BPC) channels of the permutation and no
\* other, so the later channels of the final pixel and R, G, B of every later
\* pixel of the permutation keep the cover's values, and only the first
\* ceil(ceil(T / BPC) / 3) pixels of the permutation are written.
EmbedFootprint ==
    (pc \in {"encoded", "decoded"} /\ args.mode = "stego")
        => /\ args.payloadWrites = {OffsetDue(n) : n \in 0..(ChannelsDue - 1)}
           /\ \A n \in ChannelsDue..(3 * Len(EmbedOrder) - 1) :
                 image.pixels[OffsetDue(n) + 1] = args.canvas[OffsetDue(n) + 1]
           /\ {k \div 4 : k \in args.payloadWrites}
                 = {EmbedOrder[i] : i \in 1..PixelsDue}

\* an embedding that ended in the middle of a pixel, with pixels of the
\* permutation after it, and that changed the cover
EmbedFootprintWitness ==
    /\ pc = "encoded" /\ args.mode = "stego"
    /\ ChannelsDue % 3 = 1
    /\ PixelsDue < Len(EmbedOrder)
    /\ \E n \in 0..(ChannelsDue - 1) :
          image.pixels[OffsetDue(n) + 1] # args.canvas[OffsetDue(n) + 1]
    /\ OffsetDue(ChannelsDue) \notin args.payloadWrites

(***************************************************************************)
(* SpecDetect: decodeImageToFile on the images of the encoders and on the  *)
(* images of SpecDecode alike.                                             *)
(***************************************************************************)
InitDetect == Init \/ InitDecode

NextDetect == CreatePayload \/ EncodeNoise \/ HideData \/ Decode

SpecDetect == InitDetect /\ [][NextDetect]_vars

\* C15: no image passes both the noise probe (SNIC or SNIZ in R, G, B of
\* pixel 0 and R of pixel 1) and the stego probe (SNIH in the first 32 linear
\* least significant bits), and an image of the stego embedder, whatever its
\* cover, is decoded by the stego extractor and not by the noise decoder.
DetectionUnambiguous ==
    /\ pc \in {"encoded", "decoded"} => ~(NoiseMagicGiven /\ StegoMagicGiven)
    /\ (pc \in {"encoded", "decoded"} /\ args.mode = "stego")
          => (StegoMagicGiven /\ ~NoiseMagicGiven)
    /\ (pc = "decoded" /\ args.mode = "stego")
          => /\ Head(decoded.calls) = "decodeStegoImage"
             /\ "decodeStandardImage" \notin Range(decoded.calls)

\* a stego image made from a cover that passes the noise probe itself was
\* decoded by the stego extractor
DetectionUnambiguousWitness ==
    /\ pc = "decoded" /\ args.mode = "stego"
    /\ <<args.canvas[1], args.canvas[2], args.canvas[3], args.canvas[5]>> = MAGIC_SNIC
    /\ Head(decoded.calls) = "decodeStegoImage"
    /\ decoded.outcome.kind = "ok"
\* an image with the stego header and then the noise magic over it was
\* decoded by the noise decoder alone
DetectionOverlaidWitness ==
    /\ pc = "decoded" /\ args.mode = "given" /\ args.overlay = "both"
    /\ NoiseMagicGiven /\ ~StegoMagicGiven
    /\ Head(decoded.calls) = "decodeStandardImage"

(***************************************************************************)
(* SpecApp: the handlers of AppComponent.  A handler runs to its next      *)
(* await in one step; generateImage and decodeImage await a 50 ms timer    *)
(* and then the codec, and any handler may be called while they wait.      *)
(* null is "null", a selected File is "file".  Of the signals, those the   *)
(* handlers read or isProcessing depends on are kept.                      *)
(***************************************************************************)
codecVars == <<file, payload, image, decoded, seed, shuffleLog, args, ret>>

Ops == 1..MaxOps

InitApp ==
    /\ pc = [op \in Ops |-> "idle"]
    /\ app = [mode |-> "encode", isProcessing |-> FALSE, error |-> "null",
              encodeType |-> "stego", selectedAudioFile |-> "null",
              selectedCoverImage |-> "null", selectedImageFile |-> "null"]
    /\ file = None /\ payload = None /\ image = None /\ decoded = None
    /\ seed = <<0, 0>>
    /\ shuffleLog = <<>>
    /\ args = None
    /\ ret = None

\* onAudioSelected with a file chosen, small enough or over 50 MB
onAudioSelected ==
    /\ \E tooLarge \in BOOLEAN :
          app' = IF tooLarge THEN [app EXCEPT !.error = "too large"]
                 ELSE [app EXCEPT !.selectedAudioFile = "file", !.error = "null"]
    /\ UNCHANGED <<pc, codecVars>>

onCoverImageSelected ==
    /\ app' = [app EXCEPT !.selectedCoverImage = "file", !.error = "null"]
    /\ UNCHANGED <<pc, codecVars>>

onImageSelected ==
    /\ app' = [app EXCEPT !.selectedImageFile = "file", !.error = "null"]
    /\ UNCHANGED <<pc, codecVars>>

setEncodeType ==
    /\ \E t \in {"noise", "stego"} : app' = [app EXCEPT !.encodeType = t, !.error = "null"]
    /\ UNCHANGED <<pc, codecVars>>

\* what resetState leaves of the signals
resetState(a) ==
    [a EXCEPT !.error = "null", !.isProcessing = FALSE, !.selectedAudioFile = "null",
              !.selectedCoverImage = "null", !.selectedImageFile = "null"]

setMode ==
    /\ \E m \in {"encode", "decode"} : app' = resetState([app EXCEPT !.mode = m])
    /\ UNCHANGED <<pc, codecVars>>

\* generateImage up to its first await; without an audio file it returns
generateImage(op) ==
    /\ pc[op] = "idle"
    /\ app.selectedAudioFile # "null"
    /\ app' = [app EXCEPT !.isProcessing = TRUE, !.error = "null"]
    /\ pc' = [pc EXCEPT ![op] = "generateTimer"]
    /\ UNCHANGED codecVars

\* the timer fired: the codec is called, or the missing cover is thrown,
\* caught, and finally isProcessing is set false
generateAfterTimer(op) ==
    /\ pc[op] = "generateTimer"
    /\ IF app.encodeType = "stego" /\ app.selectedCoverImage = "null"
       THEN /\ app' = [app EXCEPT !.error = "encoding", !.isProcessing = FALSE]
            /\ pc' = [pc EXCEPT ![op] = "done"]
       ELSE /\ pc' = [pc EXCEPT ![op] = "generateCodec"]
            /\ UNCHANGED app
    /\ UNCHANGED codecVars

\* the codec resolved or rejected: the rest of try, or catch, then finally
generateAfterCodec(op) ==
    /\ pc[op] = "generateCodec"
    /\ \E failed \in BOOLEAN :
          app' = [app EXCEPT !.error = IF failed THEN "encoding" ELSE @,
                             !.isProcessing = FALSE]
    /\ pc' = [pc EXCEPT ![op] = "done"]
    /\ UNCHANGED codecVars

\* decodeImage up to its first await; without an image file it returns
decodeImage(op) ==
    /\ pc[op] = "idle"
    /\ app.selectedImageFile # "null"
    /\ app' = [app EXCEPT !.isProcessing = TRUE, !.error = "null"]
    /\ pc' = [pc EXCEPT ![op] = "decodeTimer"]
    /\ UNCHANGED codecVars

decodeAfterTimer(op) ==
    /\ pc[op] = "decodeTimer"
    /\ pc' = [pc EXCEPT ![op] = "decodeCodec"]
    /\ UNCHANGED <<app, codecVars>>

decodeAfterCodec(op) ==
    /\ pc[op] = "decodeCodec"
    /\ \E failed \in BOOLEAN :
          app' = [app EXCEPT !.error = IF failed THEN "decoding" ELSE @,
                             !.isProcessing = FALSE]
    /\ pc' = [pc EXCEPT ![op] = "done"]
    /\ UNCHANGED codecVars

NextApp ==
    \/ onAudioSelected \/ onCoverImageSelected \/ onImageSelected
    \/ setEncodeType \/ setMode
    \/ \E op \in Ops :
          \/ generateImage(op) \/ generateAfterTimer(op) \/ generateAfterCodec(op)
          \/ decodeImage(op) \/ decodeAfterTimer(op) \/ decodeAfterCodec(op)

SpecApp == InitApp /\ [][NextApp]_vars

\* an encode or a decode that has started and has neither completed nor failed
InFlight(op) ==
    pc[op] \in {"generateTimer", "generateCodec", "decodeTimer", "decodeCodec"}

\* C16: isProcessing is true whenever an encode or decode is in flight, and
\* false once every operation that started has completed or failed.
ProcessingTracksOperations ==
    app.isProcessing <=> (\E op \in Ops : InFlight(op))

\* The second half holds: with no operation in flight isProcessing is false.
ProcessingFalseWhenIdle ==
    (\A op \in Ops : ~InFlight(op)) => ~app.isProcessing
\* setMode was called while an encode awaited the codec: the encode is in
\* flight and isProcessing is false
ProcessingClearedInFlight ==
    /\ pc[1] = "generateCodec"
    /\ \A op \in Ops : op # 1 => pc[op] = "idle"
    /\ app.mode = "decode"
    /\ ~app.isProcessing
\* one of two operations completed: the other is in flight and isProcessing
\* is false, with no setMode in between
ProcessingClearedByOther ==
    /\ pc[1] = "done" /\ pc[2] = "decodeCodec"
    /\ app.selectedImageFile = "file" /\ app.selectedAudioFile = "file"
    /\ ~app.isProcessing

====
